---- MODULE Spec2Model ----
(***************************************************************************)
(* serde-pyo3: the serializer (src/src/ser.rs) and the deserializer        *)
(* (src/src/de.rs) between serde's typed data model and Python values.     *)
(*                                                                         *)
(* Every value of the model is a record [k |-> tag, v |-> payload]: typed  *)
(* (Rust) values, schemas (the Rust type whose Serialize/Deserialize impl  *)
(* drives the traversal), Python values and Results.                       *)
(***************************************************************************)
EXTENDS Integers, Sequences, FiniteSets, TLC

VARIABLES pc, schema, value, obj, result, access, opened, pulled

vars == <<pc, schema, value, obj, result, access, opened, pulled>>

(***************************************************************************)
(* Integers.  Python integers are unbounded and Rust's widths reach 2^64,  *)
(* beyond the checker's machine integers, so an integer is written         *)
(* <<s, e, d>> and denotes s * 2^e + d: s = 0 for the integers around 0    *)
(* (e = 0), s = 1 or -1 for the integers around a power of two that is a   *)
(* width bound (e in Anchors).  |d| <= MaxOffset keeps the notation unique *)
(* and ordered by (s, s*e, d).                                             *)
(***************************************************************************)
MaxOffset == 65536

Anchors == {31, 32, 63, 64, 128, 1024}

Small(n) == <<0, 0, n>>

Pow2(e) == <<1, e, 0>>

NumAdd(n, i) == <<n[1], n[2], n[3] + i>>

NumNeg(n) == <<-n[1], n[2], -n[3]>>

IsNum(n) ==
    /\ n[1] \in {-1, 0, 1}
    /\ n[3] \in -MaxOffset..MaxOffset
    /\ IF n[1] = 0 THEN n[2] = 0 ELSE n[2] \in Anchors

NumLt(a, b) ==
    \/ a[1] < b[1]
    \/ a[1] = b[1] /\ a[1] * a[2] < b[1] * b[2]
    \/ a[1] = b[1] /\ a[1] * a[2] = b[1] * b[2] /\ a[3] < b[3]

NumLe(a, b) == a = b \/ NumLt(a, b)

(* The range of each Rust integer width (std: iN::MIN, iN::MAX, uN::MAX). *)
IntWidths == {"i8", "i16", "i32", "i64", "u8", "u16", "u32", "u64"}

MinOf(w) ==
    CASE w = "i8" -> Small(-128)
      [] w = "i16" -> Small(-32768)
      [] w = "i32" -> NumNeg(Pow2(31))
      [] w = "i64" -> NumNeg(Pow2(63))
      [] OTHER -> Small(0)

MaxOf(w) ==
    CASE w = "i8" -> Small(127)
      [] w = "i16" -> Small(32767)
      [] w = "i32" -> NumAdd(Pow2(31), -1)
      [] w = "i64" -> NumAdd(Pow2(63), -1)
      [] w = "u8" -> Small(255)
      [] w = "u16" -> Small(65535)
      [] w = "u32" -> NumAdd(Pow2(32), -1)
      [] w = "u64" -> NumAdd(Pow2(64), -1)

Fits(w, n) == NumLe(MinOf(w), n) /\ NumLe(n, MaxOf(w))

(***************************************************************************)
(* Floats.  A float is <<s, e, d, h>> and denotes the integer <<s, e, d>>  *)
(* plus h halves (h in {0, 1}; h = 1 only around 0).  Every float at or    *)
(* beyond 2^1024 in magnitude is an infinity.  NaN is not modelled.        *)
(***************************************************************************)
Flt(n, h) == <<n[1], n[2], n[3], h>>

IntPart(f) == <<f[1], f[2], f[3]>>

PosInf == Flt(Pow2(1024), 0)

NegInf == Flt(NumNeg(Pow2(1024)), 0)

IsFinite(f) == f[2] < 1024

(* d rounded to a multiple of 2^x, halves to the even multiple. *)
RoundOffset(d, x) ==
    IF x <= 0 THEN d
    ELSE IF x >= 18 THEN 0
    ELSE LET ulp == 2 ^ x
             q == d \div ulp
             r == d % ulp
         IN  IF 2 * r < ulp THEN q * ulp
             ELSE IF 2 * r > ulp THEN (q + 1) * ulp
             ELSE IF q % 2 = 0 THEN q * ulp ELSE (q + 1) * ulp

(* A non-negative integer rounded to p significant bits (round to nearest, *)
(* ties to even): the integers around 0 have at most 17 bits and are exact *)
(* for p >= 24; 2^e + d lies in the binade of 2^e (ulp 2^(e-p+1)) when     *)
(* d >= 0 and in the one below (ulp 2^(e-p)) when d < 0.                   *)
RoundPos(n, p) ==
    IF n[1] = 0 THEN n
    ELSE <<n[1], n[2], RoundOffset(n[3], IF n[3] >= 0 THEN n[2] - p + 1 ELSE n[2] - p)>>

RoundBits(n, p) ==
    IF n[1] >= 0 THEN RoundPos(n, p) ELSE NumNeg(RoundPos(NumNeg(n), p))

(***************************************************************************)
(* Text.  A Rust String / Python str is the sequence of its characters,    *)
(* each its Unicode code point; String::len counts UTF-8 bytes.            *)
(***************************************************************************)
Utf8Width(c) == IF c < 128 THEN 1 ELSE IF c < 2048 THEN 2 ELSE IF c < 65536 THEN 3 ELSE 4

RECURSIVE Utf8Len(_)
Utf8Len(s) == IF s = <<>> THEN 0 ELSE Utf8Width(Head(s)) + Utf8Len(Tail(s))

(***************************************************************************)
(* Results: std Result<T, Error> of error.rs, and the panic of             *)
(* unimplemented!().  Error names are the ones de.rs constructs; "PyErr"   *)
(* is a host error converted by `?` (error.rs From<PyErr>), "Message" an   *)
(* error raised by serde's own visitors through de::Error::custom.         *)
(***************************************************************************)
Ok(x) == [k |-> "ok", v |-> x]

Err(e) == [k |-> "err", v |-> e]

Panic == [k |-> "panic", v |-> "unimplemented"]

IsOk(r) == r.k = "ok"

(* Result::map, and `Ok(f(r?))`: an Err (or a panic) passes through. *)
MapResult(r, f(_)) == IF IsOk(r) THEN Ok(f(r.v)) ELSE r

(* `let x = r?; f(x)`, Result::and_then. *)
AndThen(r, f(_)) == IF IsOk(r) THEN f(r.v) ELSE r

(* `if let Ok(x) = r { f(x) } else { otherwise }`. *)
IfLetOk(r, f(_), otherwise) == IF IsOk(r) THEN f(r.v) ELSE otherwise

(* Option::Some / Option::None. *)
Some(x) == <<x>>

None == <<>>

(***************************************************************************)
(* Python values (pyo3 PyAny).  A list, a tuple and a set hold a sequence  *)
(* of values, bytes a sequence of octets, an array (array.array('i')) a    *)
(* sequence of C ints, a dict the sequence of its <<key, value>> entries   *)
(* in insertion order.  A set stands for the objects that are none of the  *)
(* kinds de.rs probes for.                                                 *)
(***************************************************************************)
PyNone == [k |-> "None", v |-> <<>>]

PyBool(b) == [k |-> "bool", v |-> b]

PyInt(n) == [k |-> "int", v |-> n]

PyFloat(f) == [k |-> "float", v |-> f]

PyStr(s) == [k |-> "str", v |-> s]

PyBytes(s) == [k |-> "bytes", v |-> s]

PyArray(s) == [k |-> "array", v |-> s]

PyList(s) == [k |-> "list", v |-> s]

PyTuple(s) == [k |-> "tuple", v |-> s]

PySet(s) == [k |-> "set", v |-> s]

PyDict(s) == [k |-> "dict", v |-> s]

(* An object of a class that defines __getitem__ and no __len__. *)
PyIndexable(s) == [k |-> "indexable", v |-> s]

(* Python's == and hash on dict keys: True, 1 and 1.0 are one key. *)
KeyNorm(p) ==
    CASE p.k = "bool" -> PyInt(Small(IF p.v THEN 1 ELSE 0))
      [] p.k = "float" /\ p.v[4] = 0 /\ IsFinite(p.v) -> PyInt(IntPart(p.v))
      [] OTHER -> p

KeyEq(a, b) == KeyNorm(a) = KeyNorm(b)

RECURSIVE Hashable(_)
Hashable(p) ==
    CASE p.k \in {"list", "dict", "set", "array", "indexable"} -> FALSE
      [] p.k = "tuple" -> \A i \in 1..Len(p.v) : Hashable(p.v[i])
      [] OTHER -> TRUE

(* PyDict::get_item: the value of the entry whose key is k, <<>> if none. *)
DictGetItem(d, key) ==
    LET hit == {i \in 1..Len(d) : KeyEq(d[i][1], key)}
    IN  IF hit = {} THEN <<>> ELSE <<d[CHOOSE i \in hit : TRUE][2]>>

(* PyDict::set_item on a hashable key: an equal key keeps its place and    *)
(* its first key object and takes the new value; a new key goes last.      *)
DictSetItem(d, key, val) ==
    IF \E i \in 1..Len(d) : KeyEq(d[i][1], key)
    THEN [i \in 1..Len(d) |-> IF KeyEq(d[i][1], key) THEN <<d[i][1], val>> ELSE d[i]]
    ELSE Append(d, <<key, val>>)

(* PyDict::keys: the list of the keys, in insertion order. *)
DictKeys(d) == [i \in 1..Len(d) |-> d[i][1]]

(* PySequence_Check, behind <PySequence as PyTryFrom>::try_from. *)
IsSequence(p) == p.k \in {"list", "tuple", "str", "bytes", "array", "indexable"}

(* The items iter(p) yields for a sequence p. *)
SeqItems(p) ==
    CASE p.k \in {"list", "tuple", "indexable"} -> p.v
      [] p.k = "str" -> [i \in 1..Len(p.v) |-> PyStr(<<p.v[i]>>)]
      [] p.k \in {"bytes", "array"} -> [i \in 1..Len(p.v) |-> PyInt(Small(p.v[i]))]

(***************************************************************************)
(* pyo3's FromPyObject::extract, per target type, as downcast calls it.    *)
(***************************************************************************)
(* PyNumber_Index: an int, or a bool (a subclass of int); a float has no   *)
(* __index__.                                                              *)
NumberIndex(p) ==
    CASE p.k = "int" -> Ok(p.v)
      [] p.k = "bool" -> Ok(Small(IF p.v THEN 1 ELSE 0))
      [] OTHER -> Err("PyErr")

ExtractInt(w, p) ==
    IfLetOk(NumberIndex(p), LAMBDA n : IF Fits(w, n) THEN Ok(n) ELSE Err("PyErr"), Err("PyErr"))

(* PyFloat_AsDouble: a float as it is, an int (or bool) rounded to 53      *)
(* bits, OverflowError for an int beyond the doubles.                      *)
ExtractF64(p) ==
    CASE p.k = "float" -> Ok(p.v)
      [] p.k \in {"int", "bool"} ->
            LET n == NumberIndex(p).v
            IN  IF n[2] >= 1024 THEN Err("PyErr") ELSE Ok(Flt(RoundBits(n, 53), 0))
      [] OTHER -> Err("PyErr")

(* f64 as f32: rounded to 24 bits, an infinity from 2^128 on. *)
F64ToF32(f) ==
    IF f[2] >= 128 THEN (IF f[1] > 0 THEN PosInf ELSE NegInf)
    ELSE IF f[4] = 1 THEN f
    ELSE Flt(RoundBits(IntPart(f), 24), 0)

ExtractF32(p) ==
    MapResult(ExtractF64(p), LAMBDA ok : F64ToF32(ok))

ExtractBool(p) == IF p.k = "bool" THEN Ok(p.v) ELSE Err("PyErr")

ExtractString(p) == IF p.k = "str" THEN Ok(p.v) ELSE Err("PyErr")

(* Vec<u8>: the buffer's octets when the object has one of u8 items, else  *)
(* every item of the sequence extracted as u8.                             *)
ExtractVecU8(p) ==
    IF p.k = "bytes" THEN Ok(p.v)
    ELSE IF IsSequence(p) /\ \A i \in 1..Len(SeqItems(p)) : IsOk(ExtractInt("u8", SeqItems(p)[i]))
    THEN Ok([i \in 1..Len(SeqItems(p)) |-> ExtractInt("u8", SeqItems(p)[i]).v[3]])
    ELSE Err("PyErr")

Extract(t, p) ==
    CASE t \in IntWidths -> ExtractInt(t, p)
      [] t = "f64" -> ExtractF64(p)
      [] t = "f32" -> ExtractF32(p)
      [] t = "bool" -> ExtractBool(p)
      [] t = "String" -> ExtractString(p)
      [] t = "Vec<u8>" -> ExtractVecU8(p)

(***************************************************************************)
(* Typed values: what a Rust value presents to serde's Serializer, and     *)
(* what a Visitor builds.  A map is the set of its <<key, value>> entries  *)
(* (HashMap / BTreeMap / serde_json::Map compare without order); a         *)
(* struct's fields are <<name, value>> in declaration order.               *)
(* serde_json::Value is Null = VUnit, Bool, Number (u64, i64 or f64),      *)
(* String, Array = VSeq, Object = VMap.                                    *)
(***************************************************************************)
VBool(b) == [k |-> "bool", v |-> b]

VInt(w, n) == [k |-> w, v |-> n]

VF32(f) == [k |-> "f32", v |-> f]

VF64(f) == [k |-> "f64", v |-> f]

VChar(c) == [k |-> "char", v |-> c]

VString(s) == [k |-> "string", v |-> s]

VBytes(s) == [k |-> "bytes", v |-> s]

VByteBuf(s) == [k |-> "byte_buf", v |-> s]

VNone == [k |-> "none", v |-> <<>>]

VSome(x) == [k |-> "some", v |-> <<x>>]

VUnit == [k |-> "unit", v |-> <<>>]

VUnitStruct(name) == [k |-> "unit_struct", v |-> name]

VNewtypeStruct(name, x) == [k |-> "newtype_struct", v |-> <<name, x>>]

VSeq(xs) == [k |-> "seq", v |-> xs]

VTuple(xs) == [k |-> "tuple", v |-> xs]

VTupleStruct(name, xs) == [k |-> "tuple_struct", v |-> <<name, xs>>]

VMap(entries) == [k |-> "map", v |-> entries]

VStruct(name, fields) == [k |-> "struct", v |-> <<name, fields>>]

VUnitVariant(variant) == [k |-> "unit_variant", v |-> variant]

VNewtypeVariant(variant, x) == [k |-> "newtype_variant", v |-> <<variant, x>>]

VTupleVariant(variant, xs) == [k |-> "tuple_variant", v |-> <<variant, xs>>]

VStructVariant(variant, fields) == [k |-> "struct_variant", v |-> <<variant, fields>>]

VIgnored == [k |-> "ignored", v |-> <<>>]

(* The order a map's iterator yields its entries in. *)
RECURSIVE MapIter(_)
MapIter(entries) ==
    IF entries = {} THEN <<>>
    ELSE LET e == CHOOSE e \in entries : TRUE
         IN  <<e>> \o MapIter(entries \ {e})

(***************************************************************************)
(* The serializer, src/src/ser.rs.  Serialize(x) is x.serialize(&ser).     *)
(***************************************************************************)
serialize_bool(b) == Ok(PyBool(b))

serialize_i64(n) == Ok(PyInt(n))

serialize_u64(n) == Ok(PyInt(n))

serialize_f64(f) == Ok(PyFloat(f))

serialize_f32(f) == serialize_f64(f)

serialize_char(c) == Ok(PyStr(<<c>>))

serialize_str(s) == Ok(PyStr(s))

serialize_bytes(s) == Ok(PyList([i \in 1..Len(s) |-> PyInt(Small(s[i]))]))

serialize_none == Ok(PyNone)

serialize_unit == Ok(PyNone)

serialize_unit_struct == serialize_unit

(* A unit variant written as the other shapes are, {variant: None}. *)
serialize_unit_variant_as_map(variant) == Ok(PyDict(<<<<PyStr(variant), PyNone>>>>))

serialize_unit_variant(variant) == serialize_str(variant)

(* dict.set_item(key, value)?: TypeError on an unhashable key. *)
SetItem(d, key, val) ==
    IF Hashable(key) THEN Ok(DictSetItem(d, key, val)) ELSE Err("PyErr")

RECURSIVE Serialize(_), SerializeElements(_, _), SerializeEntries(_, _), SerializeFields(_, _)

serialize_some(x) == Serialize(x)

serialize_newtype_struct(x) == Serialize(x)

serialize_newtype_variant(variant, x) ==
    AndThen(Serialize(x), LAMBDA val :
        MapResult(SetItem(<<>>, serialize_str(variant).v, val), LAMBDA ok : PyDict(ok)))

(* PyListSerializer / PyTupleSerializer / PyTupleVariantSerializer:        *)
(* serialize_element (serialize_field) on each of xs in turn, appended to  *)
(* the list (pushed on the stack) acc; the first failure is returned.      *)
SerializeElements(xs, acc) ==
    IF xs = <<>> THEN Ok(acc)
    ELSE AndThen(Serialize(Head(xs)), LAMBDA val : SerializeElements(Tail(xs), Append(acc, val)))

(* PyDictSerializer {dict, key}, as serialize_map creates it. *)
PyDictSerializer_new == [dict |-> <<>>, key |-> None]

(* SerializeMap::serialize_key: the serializer with the key kept. *)
serialize_key(ser, key) ==
    MapResult(Serialize(key), LAMBDA ok : [ser EXCEPT !.key = Some(ok)])

(* serialize_value that leaves the entry of a key the dict already holds. *)
serialize_value_keep_first(ser, val) ==
    LET key == IF ser.key = None THEN PyNone ELSE ser.key[1]
    IN  AndThen(Serialize(val), LAMBDA r :
            IF DictGetItem(ser.dict, key) # None THEN Ok([ser EXCEPT !.key = None])
            ELSE MapResult(SetItem(ser.dict, key, r), LAMBDA ok : [dict |-> ok, key |-> None]))

(* SerializeMap::serialize_value: set_item(self.key.take(), value); a key  *)
(* never given is Python's None. *)
serialize_value(ser, val) ==
    LET key == IF ser.key = None THEN PyNone ELSE ser.key[1]
    IN  AndThen(Serialize(val), LAMBDA r :
            MapResult(SetItem(ser.dict, key, r), LAMBDA ok : [dict |-> ok, key |-> None]))

(* SerializeStruct / SerializeStructVariant::serialize_field. *)
serialize_field(ser, name, val) ==
    AndThen(Serialize(val), LAMBDA r :
        MapResult(SetItem(ser.dict, serialize_str(name).v, r), LAMBDA ok : [ser EXCEPT !.dict = ok]))

(* SerializeMap / SerializeStruct::end. *)
end(ser) == Ok(PyDict(ser.dict))

(* PyDictSerializer as SerializeMap: serialize_key then serialize_value on *)
(* each entry in turn, into the dict d. *)
SerializeEntries(es, d) ==
    IF es = <<>> THEN Ok(d)
    ELSE AndThen(serialize_key([dict |-> d, key |-> None], Head(es)[1]), LAMBDA key :
            AndThen(serialize_value(key, Head(es)[2]), LAMBDA val :
                SerializeEntries(Tail(es), val.dict)))

(* PyDictSerializer as SerializeStruct, PyDictVariantSerializer:           *)
(* serialize_field(name, value) on each field in turn, into the dict d.    *)
SerializeFields(fs, d) ==
    IF fs = <<>> THEN Ok(d)
    ELSE AndThen(serialize_field([dict |-> d, key |-> None], Head(fs)[1], Head(fs)[2]),
                 LAMBDA r : SerializeFields(Tail(fs), r.dict))

serialize_seq(xs) ==
    MapResult(SerializeElements(xs, <<>>), LAMBDA ok : PyList(ok))

serialize_tuple(xs) ==
    MapResult(SerializeElements(xs, <<>>), LAMBDA ok : PyTuple(ok))

serialize_tuple_struct(xs) == serialize_tuple(xs)

serialize_tuple_variant(variant, xs) ==
    AndThen(SerializeElements(xs, <<>>), LAMBDA stack :
        MapResult(SetItem(<<>>, serialize_str(variant).v, PyTuple(stack)), LAMBDA ok : PyDict(ok)))

serialize_map(entries) ==
    AndThen(SerializeEntries(MapIter(entries), PyDictSerializer_new.dict),
            LAMBDA d : end([dict |-> d, key |-> None]))

serialize_struct(fields) ==
    AndThen(SerializeFields(fields, PyDictSerializer_new.dict),
            LAMBDA d : end([dict |-> d, key |-> None]))

serialize_struct_variant(variant, fields) ==
    AndThen(SerializeFields(fields, <<>>), LAMBDA d :
        MapResult(SetItem(<<>>, serialize_str(variant).v, PyDict(d)), LAMBDA ok : PyDict(ok)))

Serialize(x) ==
    CASE x.k = "bool" -> serialize_bool(x.v)
      [] x.k \in {"i8", "i16", "i32", "i64"} -> serialize_i64(x.v)
      [] x.k \in {"u8", "u16", "u32", "u64"} -> serialize_u64(x.v)
      [] x.k = "f32" -> serialize_f32(x.v)
      [] x.k = "f64" -> serialize_f64(x.v)
      [] x.k = "char" -> serialize_char(x.v)
      [] x.k = "string" -> serialize_str(x.v)
      [] x.k = "bytes" -> serialize_seq([i \in 1..Len(x.v) |-> VInt("u8", Small(x.v[i]))])
      [] x.k = "byte_buf" -> serialize_bytes(x.v)
      [] x.k = "none" -> serialize_none
      [] x.k = "some" -> serialize_some(x.v[1])
      [] x.k = "unit" -> serialize_unit
      [] x.k = "unit_struct" -> serialize_unit_struct
      [] x.k = "newtype_struct" -> serialize_newtype_struct(x.v[2])
      [] x.k = "seq" -> serialize_seq(x.v)
      [] x.k = "tuple" -> serialize_tuple(x.v)
      [] x.k = "tuple_struct" -> serialize_tuple_struct(x.v[2])
      [] x.k = "map" -> serialize_map(x.v)
      [] x.k = "struct" -> serialize_struct(x.v[2])
      [] x.k = "unit_variant" -> serialize_unit_variant(x.v)
      [] x.k = "newtype_variant" -> serialize_newtype_variant(x.v[1], x.v[2])
      [] x.k = "tuple_variant" -> serialize_tuple_variant(x.v[1], x.v[2])
      [] x.k = "struct_variant" -> serialize_struct_variant(x.v[1], x.v[2])

to_py(x) == Serialize(x)

(***************************************************************************)
(* Schemas: the Rust type T of from_py::<T>, whose Deserialize impl picks  *)
(* the Deserializer method and supplies the Visitor.  A struct's fields    *)
(* are <<name, type>> in declaration order; an enum's variants are         *)
(* <<name, shape, payload>> with payload <<>> (unit), <<T>> (newtype),     *)
(* <<T1, ..>> (tuple) or <<<<name, T>>, ..>> (struct).                     *)
(* TJson is serde_json::Value, TIgnored serde's IgnoredAny (both ask for   *)
(* deserialize_any), TRecorder a visitor that accepts every visit_* call   *)
(* and keeps which one it got.                                             *)
(***************************************************************************)
TPrim(name) == [k |-> name, v |-> <<>>]

TOption(t) == [k |-> "option", v |-> <<t>>]

TUnitStruct(name) == [k |-> "unit_struct", v |-> name]

TNewtypeStruct(name, t) == [k |-> "newtype_struct", v |-> <<name, t>>]

TSeq(t) == [k |-> "seq", v |-> <<t>>]

TTuple(ts) == [k |-> "tuple", v |-> ts]

TTupleStruct(name, ts) == [k |-> "tuple_struct", v |-> <<name, ts>>]

TMap(kt, vt) == [k |-> "map", v |-> <<kt, vt>>]

TStruct(name, fields) == [k |-> "struct", v |-> <<name, fields>>]

TEnum(name, variants) == [k |-> "enum", v |-> <<name, variants>>]

TJson == TPrim("json")

TIgnored == TPrim("ignored")

TRecorder == TPrim("recorder")

(* The derived identifier types: a struct's field names (an unknown name   *)
(* is ignored: index 0), an enum's variant names (an unknown name is an    *)
(* error). *)
TFieldIdent(names) == [k |-> "field_ident", v |-> names]

TVariantIdent(names) == [k |-> "variant_ident", v |-> names]

(* The visitors of an enum's tuple and struct variants. *)
TTupleVariant(variant, ts) == [k |-> "tuple_variant", v |-> <<variant, ts>>]

TStructVariant(variant, fields) == [k |-> "struct_variant", v |-> <<variant, fields>>]

Names(fields) == [i \in 1..Len(fields) |-> fields[i][1]]

IndexOf(names, s) ==
    IF \E i \in 1..Len(names) : names[i] = s
    THEN CHOOSE i \in 1..Len(names) : names[i] = s
    ELSE 0

(***************************************************************************)
(* The deserializer, src/src/de.rs.                                        *)
(***************************************************************************)
downcast(t, input) ==
    IfLetOk(Extract(t, input), Ok, Err("ExpectedInteger"))

is_none(input) == input.k = "None"

(* What the visitor makes of a visit_<method>(x) call. *)
Visit(visitor, method, x) ==
    CASE visitor.k = "ignored" -> Ok(VIgnored)
      [] visitor.k = "recorder" -> Ok([k |-> method, v |-> x])
      [] visitor.k = "json" ->
            CASE method = "visit_unit" -> Ok(VUnit)
              [] method = "visit_string" -> Ok(VString(x))
              [] method = "visit_bool" -> Ok(VBool(x))
              [] method = "visit_u64" -> Ok(VInt("u64", x))
              [] method = "visit_f64" -> Ok(IF IsFinite(x) THEN VF64(x) ELSE VUnit)

deserialize_bool(input) ==
    MapResult(downcast("bool", input), LAMBDA ok : VBool(ok))

(* deserialize_i8 .. deserialize_u64, by width. *)
deserialize_int(w, input) ==
    MapResult(downcast(w, input), LAMBDA ok : VInt(w, ok))

deserialize_f32(input) ==
    MapResult(downcast("f32", input), LAMBDA ok : VF32(ok))

deserialize_f64(input) ==
    MapResult(downcast("f64", input), LAMBDA ok : VF64(ok))

deserialize_char(input) ==
    AndThen(downcast("String", input), LAMBDA strval :
        IF Utf8Len(strval) = 1 THEN Ok(VChar(strval[1])) ELSE Err("ExpectedString"))

(* visitor is the &str visitor or a derived identifier visitor. *)
deserialize_str(input, visitor) ==
    IF input.k # "str" THEN Err("PyErr")
    ELSE CASE visitor.k = "field_ident" -> Ok(IndexOf(visitor.v, input.v))
           [] visitor.k = "variant_ident" ->
                 IF IndexOf(visitor.v, input.v) = 0 THEN Err("Message")
                 ELSE Ok(IndexOf(visitor.v, input.v))
           [] OTHER -> Ok(VString(input.v))

deserialize_identifier(input, visitor) == deserialize_str(input, visitor)

deserialize_string(input) ==
    MapResult(downcast("String", input), LAMBDA ok : VString(ok))

(* PyBuffer::get succeeds on bytes and on an array; as_slice::<u8> only on *)
(* a buffer of u8 items. *)
deserialize_bytes(input) ==
    IF input.k \notin {"bytes", "array"} THEN Err("PyErr")
    ELSE IF input.k = "bytes" THEN Ok(VBytes(input.v))
    ELSE Err("ExpectedNull")

deserialize_byte_buf(input) ==
    MapResult(downcast("Vec<u8>", input), LAMBDA ok : VByteBuf(ok))

deserialize_unit(input) ==
    IF is_none(input) THEN Ok(VUnit) ELSE Err("ExpectedNull")

deserialize_unit_struct(input, name) ==
    MapResult(deserialize_unit(input), LAMBDA ok : VUnitStruct(name))

(***************************************************************************)
(* Compound values.  Deserialize(t, input) is                              *)
(* T::deserialize(&mut Deserializer::from_py(py, input)) for the schema t. *)
(* Every step returns the first result that is not Ok (an Err through `?`, *)
(* a panic by unwinding).                                                  *)
(***************************************************************************)
RECURSIVE Deserialize(_, _), deserialize_any(_, _), deserialize_option(_, _),
          deserialize_seq(_, _), deserialize_map(_, _), deserialize_enum(_, _),
          next_element_seed(_, _), next_key_seed(_, _), next_value_seed(_, _),
          VisitSeqAll(_, _, _), VisitSeqTuple(_, _, _), VisitMapAll(_, _, _, _),
          VisitMapJson(_, _, _), VisitMapIgnored(_), VisitMapStruct(_, _, _),
          VisitMapStructByPosition(_, _, _), VisitSeqAllSkipFailed(_, _, _)

(* SeqIter: input is what the Python iterator has left to yield. *)
SeqIter_new(items, size) == [input |-> items, size |-> size]

size_hint(it) == it.size

(* next_element_seed that takes the end of the iterator for a failed item. *)
next_element_seed_end_is_error(it, seed) ==
    IF it.input # <<>>
    THEN [res |-> MapResult(Deserialize(seed, Head(it.input)), Some),
          it |-> [it EXCEPT !.input = Tail(@)]]
    ELSE [res |-> Err("ExpectedMapComma"), it |-> it]

next_element_seed(it, seed) ==
    IF it.input # <<>>
    THEN [res |-> MapResult(Deserialize(seed, Head(it.input)), Some),
          it |-> [it EXCEPT !.input = Tail(@)]]
    ELSE [res |-> Ok(None), it |-> it]

(* DictIter. *)
DictIter_new(d) ==
    [input |-> d, keys |-> DictKeys(d), index |-> 0, size |-> Len(DictKeys(d))]

next_key_seed(it, seed) ==
    IF it.index < it.size
    THEN [res |-> MapResult(Deserialize(seed, it.keys[it.index + 1]), Some), it |-> it]
    ELSE [res |-> Ok(None), it |-> it]

next_value_seed(it, seed) ==
    LET idx == it.index
        item == DictGetItem(it.input, it.keys[idx + 1])
    IN  [res |-> IF item # None THEN Deserialize(seed, item[1]) ELSE Err("ExpectedMapComma"),
         it |-> [it EXCEPT !.index = idx + 1]]

(* visit_seq that drops an element that fails and goes on to the next. *)
VisitSeqAllSkipFailed(it, seed, acc) ==
    LET Element(n) ==
            IF n.res.k = "panic" THEN n.res
            ELSE IF ~IsOk(n.res) THEN VisitSeqAllSkipFailed(n.it, seed, acc)
            ELSE IF n.res.v = None THEN Ok(acc)
            ELSE VisitSeqAllSkipFailed(n.it, seed, Append(acc, n.res.v[1]))
    IN  Element(next_element_seed(it, seed))

(* visit_seq of Vec<T>, of serde_json's ValueVisitor and of IgnoredAny:    *)
(* next_element until None. *)
VisitSeqAll(it, seed, acc) ==
    LET Element(n) ==
            IF ~IsOk(n.res) THEN n.res
            ELSE IF n.res.v = None THEN Ok(acc)
            ELSE VisitSeqAll(n.it, seed, Append(acc, n.res.v[1]))
    IN  Element(next_element_seed(it, seed))

(* visit_seq of a tuple, a tuple struct, a tuple variant: one next_element *)
(* per declared field, invalid_length when the sequence ends early. *)
VisitSeqTuple(it, ts, acc) ==
    IF ts = <<>> THEN Ok(acc)
    ELSE LET Element(n) ==
                 IF ~IsOk(n.res) THEN n.res
                 ELSE IF n.res.v = None THEN Err("Message")
                 ELSE VisitSeqTuple(n.it, Tail(ts), Append(acc, n.res.v[1]))
         IN  Element(next_element_seed(it, Head(ts)))

visit_seq(visitor, it) ==
    CASE visitor.k = "seq" ->
            MapResult(VisitSeqAll(it, visitor.v[1], <<>>), LAMBDA ok : VSeq(ok))
      [] visitor.k = "json" ->
            MapResult(VisitSeqAll(it, TJson, <<>>), LAMBDA ok : VSeq(ok))
      [] visitor.k = "ignored" ->
            MapResult(VisitSeqAll(it, TIgnored, <<>>), LAMBDA ok : VIgnored)
      [] visitor.k = "recorder" ->
            MapResult(VisitSeqAll(it, TRecorder, <<>>), LAMBDA ok : [k |-> "visit_seq", v |-> ok])
      [] visitor.k = "tuple" ->
            MapResult(VisitSeqTuple(it, visitor.v, <<>>), LAMBDA ok : VTuple(ok))
      [] visitor.k = "tuple_struct" ->
            MapResult(VisitSeqTuple(it, visitor.v[2], <<>>), LAMBDA ok : VTupleStruct(visitor.v[1], ok))
      [] visitor.k = "tuple_variant" ->
            MapResult(VisitSeqTuple(it, visitor.v[2], <<>>), LAMBDA ok : VTupleVariant(visitor.v[1], ok))
      [] OTHER -> Err("Message")

(* HashMap::insert. *)
MapInsert(entries, key, val) == {e \in entries : e[1] # key} \cup {<<key, val>>}

(* visit_map of a map: next_entry until None. *)
VisitMapAll(it, kt, vt, acc) ==
    LET Value(key, val) ==
            IF ~IsOk(val.res) THEN val.res
            ELSE VisitMapAll(val.it, kt, vt, MapInsert(acc, key, val.res.v))
        Key(key) ==
            IF ~IsOk(key.res) THEN key.res
            ELSE IF key.res.v = None THEN Ok(acc)
            ELSE Value(key.res.v[1], next_value_seed(key.it, vt))
    IN  Key(next_key_seed(it, kt))

(* visit_map of serde_json's ValueVisitor: the first key is read by        *)
(* KeyClassifier (deserialize_str), the later ones as String. *)
VisitMapJson(it, first, acc) ==
    LET Value(key, val) ==
            IF ~IsOk(val.res) THEN val.res
            ELSE VisitMapJson(val.it, FALSE, MapInsert(acc, key, val.res.v))
        Key(key) ==
            IF ~IsOk(key.res) THEN key.res
            ELSE IF key.res.v = None THEN Ok(acc)
            ELSE Value(key.res.v[1], next_value_seed(key.it, TJson))
    IN  Key(next_key_seed(it, IF first THEN TPrim("str") ELSE TPrim("string")))

VisitMapIgnored(it) ==
    LET Value(val) == IF ~IsOk(val.res) THEN val.res ELSE VisitMapIgnored(val.it)
        Key(key) ==
            IF ~IsOk(key.res) THEN key.res
            ELSE IF key.res.v = None THEN Ok(VIgnored)
            ELSE Value(next_value_seed(key.it, TIgnored))
    IN  Key(next_key_seed(it, TIgnored))

(* visit_map of a struct that takes the k-th entry for its k-th field,     *)
(* whatever the entry's key. *)
VisitMapStructByPosition(it, fields, got) ==
    LET Value(i, val) ==
            IF ~IsOk(val.res) THEN val.res
            ELSE VisitMapStructByPosition(val.it, fields,
                    IF i > Len(fields) THEN got ELSE [got EXCEPT ![i] = Some(val.res.v)])
        Field(i, key) ==
            Value(i, next_value_seed(key.it, IF i > Len(fields) THEN TIgnored
                                             ELSE fields[i][2]))
        Key(key) ==
            IF ~IsOk(key.res) THEN key.res
            ELSE IF key.res.v = None
            THEN IF \E i \in 1..Len(fields) : got[i] = None /\ fields[i][2].k # "option"
                 THEN Err("Message")
                 ELSE Ok([i \in 1..Len(fields) |->
                            <<fields[i][1], IF got[i] = None THEN VNone ELSE got[i][1]>>])
            ELSE Field(it.index + 1, key)
    IN  Key(next_key_seed(it, TFieldIdent(Names(fields))))

(* visit_map of a derived struct: got[i] is Some(value) once field i was   *)
(* read; an unknown key's value is read as IgnoredAny; at the end a field  *)
(* never read is None for an Option and missing_field otherwise. *)
VisitMapStruct(it, fields, got) ==
    LET Value(i, val) ==
            IF ~IsOk(val.res) THEN val.res
            ELSE VisitMapStruct(val.it, fields,
                    IF i = 0 THEN got ELSE [got EXCEPT ![i] = Some(val.res.v)])
        Field(i, key) ==
            IF i # 0 /\ got[i] # None THEN Err("Message")
            ELSE Value(i, next_value_seed(key.it, IF i = 0 THEN TIgnored ELSE fields[i][2]))
        Key(key) ==
            IF ~IsOk(key.res) THEN key.res
            ELSE IF key.res.v = None
            THEN IF \E i \in 1..Len(fields) : got[i] = None /\ fields[i][2].k # "option"
                 THEN Err("Message")
                 ELSE Ok([i \in 1..Len(fields) |->
                            <<fields[i][1], IF got[i] = None THEN VNone ELSE got[i][1]>>])
            ELSE Field(key.res.v[1], key)
    IN  Key(next_key_seed(it, TFieldIdent(Names(fields))))

visit_map(visitor, it) ==
    CASE visitor.k = "map" ->
            MapResult(VisitMapAll(it, visitor.v[1], visitor.v[2], {}), LAMBDA ok : VMap(ok))
      [] visitor.k = "json" ->
            MapResult(VisitMapJson(it, TRUE, {}), LAMBDA ok : VMap(ok))
      [] visitor.k = "ignored" -> VisitMapIgnored(it)
      [] visitor.k = "recorder" ->
            MapResult(VisitMapAll(it, TRecorder, TRecorder, {}), LAMBDA ok : [k |-> "visit_map", v |-> ok])
      [] visitor.k = "struct" ->
            MapResult(VisitMapStruct(it, visitor.v[2], [i \in 1..Len(visitor.v[2]) |-> None]), LAMBDA ok : VStruct(visitor.v[1], ok))
      [] visitor.k = "struct_variant" ->
            MapResult(VisitMapStruct(it, visitor.v[2], [i \in 1..Len(visitor.v[2]) |-> None]), LAMBDA ok : VStructVariant(visitor.v[1], ok))
      [] OTHER -> Err("Message")

(* deserialize_any with the integer probe ahead of the boolean one. *)
deserialize_any_int_first(input, visitor) ==
    IF is_none(input) THEN Visit(visitor, "visit_unit", <<>>)
    ELSE IfLetOk(downcast("String", input), LAMBDA val : Visit(visitor, "visit_string", val),
         IfLetOk(downcast("u64", input), LAMBDA val : Visit(visitor, "visit_u64", val),
         IfLetOk(downcast("bool", input), LAMBDA val : Visit(visitor, "visit_bool", val),
         IfLetOk(downcast("f64", input), LAMBDA val : Visit(visitor, "visit_f64", val),
         IF input.k = "list" \/ input.k = "tuple" THEN deserialize_seq(input, visitor)
         ELSE IF input.k = "dict" THEN deserialize_map(input, visitor)
         ELSE Err("Syntax")))))

deserialize_any(input, visitor) ==
    IF is_none(input) THEN Visit(visitor, "visit_unit", <<>>)
    ELSE IfLetOk(downcast("String", input), LAMBDA val : Visit(visitor, "visit_string", val),
         IfLetOk(downcast("bool", input), LAMBDA val : Visit(visitor, "visit_bool", val),
         IfLetOk(downcast("u64", input), LAMBDA val : Visit(visitor, "visit_u64", val),
         IfLetOk(downcast("f64", input), LAMBDA val : Visit(visitor, "visit_f64", val),
         IF input.k = "list" \/ input.k = "tuple" THEN deserialize_seq(input, visitor)
         ELSE IF input.k = "dict" THEN deserialize_map(input, visitor)
         ELSE Err("Syntax")))))

deserialize_ignored_any(input, visitor) == deserialize_any(input, visitor)

(* deserialize_option without the test against None. *)
deserialize_option_always_some(input, visitor) ==
    MapResult(Deserialize(visitor.v[1], input), LAMBDA ok : VSome(ok))

deserialize_option(input, visitor) ==
    IF is_none(input) THEN Ok(VNone)
    ELSE MapResult(Deserialize(visitor.v[1], input), LAMBDA ok : VSome(ok))

deserialize_newtype_struct(input, visitor) ==
    MapResult(Deserialize(visitor.v[2], input), LAMBDA ok : VNewtypeStruct(visitor.v[1], ok))

(* seq.len().map(|x| x as usize).ok(): PySequence_Size fails on an object  *)
(* without __len__. *)
SeqLen(p) == IF p.k = "indexable" THEN None ELSE Some(Len(SeqItems(p)))

(* PyIterator::from_object succeeds on every sequence of the model. *)
deserialize_seq(input, visitor) ==
    IF ~IsSequence(input) THEN Err("PyErr")
    ELSE visit_seq(visitor, SeqIter_new(SeqItems(input), SeqLen(input)))

deserialize_tuple(input, visitor) == deserialize_seq(input, visitor)

deserialize_tuple_struct(input, visitor) == deserialize_seq(input, visitor)

deserialize_map(input, visitor) ==
    IF input.k # "dict" THEN Err("PyErr")
    ELSE visit_map(visitor, DictIter_new(input.v))

deserialize_struct(input, visitor) == deserialize_map(input, visitor)

(* serde's StringDeserializer as EnumAccess (key.into_deserializer()):     *)
(* the name picks the variant, and only unit_variant is answered. *)
VisitEnumString(variants, key) ==
    LET i == IndexOf(Names(variants), key)
    IN  IF i = 0 THEN Err("Message")
        ELSE IF variants[i][2] = "unit" THEN Ok(VUnitVariant(variants[i][1]))
        ELSE Err("Message")

(* Enum as EnumAccess and VariantAccess: variant_seed reads the key as the *)
(* variant identifier, then the derived visitor asks for the payload by    *)
(* the variant's declared shape. *)
unit_variant == Panic

newtype_variant_seed(variant, val) ==
    MapResult(Deserialize(variant[3][1], val), LAMBDA ok : VNewtypeVariant(variant[1], ok))

tuple_variant(variant, val) == deserialize_seq(val, TTupleVariant(variant[1], variant[3]))

struct_variant(variant, val) == deserialize_map(val, TStructVariant(variant[1], variant[3]))

VisitEnum(variants, key, val) ==
    AndThen(deserialize_identifier(key, TVariantIdent(Names(variants))), LAMBDA i :
        CASE variants[i][2] = "unit" -> unit_variant
          [] variants[i][2] = "newtype" -> newtype_variant_seed(variants[i], val)
          [] variants[i][2] = "tuple" -> tuple_variant(variants[i], val)
          [] variants[i][2] = "struct" -> struct_variant(variants[i], val))

(* deserialize_enum without the bare-string branch. *)
deserialize_enum_dict_only(input, visitor) ==
    IF input.k # "dict" THEN Err("PyErr")
    ELSE IF DictKeys(input.v) # <<>>
    THEN LET key == Head(DictKeys(input.v))
         IN  IF DictGetItem(input.v, key) # None
             THEN VisitEnum(visitor.v[2], key, DictGetItem(input.v, key)[1])
             ELSE Err("ExpectedMapComma")
    ELSE Err("ExpectedMapComma")

deserialize_enum(input, visitor) ==
    IF input.k = "str"
    THEN AndThen(downcast("String", input), LAMBDA key : VisitEnumString(visitor.v[2], key))
    ELSE IF input.k # "dict" THEN Err("PyErr")
    ELSE IF DictKeys(input.v) # <<>>
    THEN LET key == Head(DictKeys(input.v))
         IN  IF DictGetItem(input.v, key) # None
             THEN VisitEnum(visitor.v[2], key, DictGetItem(input.v, key)[1])
             ELSE Err("ExpectedMapComma")
    ELSE Err("ExpectedMapComma")

Deserialize(t, input) ==
    CASE t.k = "bool" -> deserialize_bool(input)
      [] t.k \in IntWidths -> deserialize_int(t.k, input)
      [] t.k = "f32" -> deserialize_f32(input)
      [] t.k = "f64" -> deserialize_f64(input)
      [] t.k = "char" -> deserialize_char(input)
      [] t.k = "str" -> deserialize_str(input, t)
      [] t.k = "string" -> deserialize_string(input)
      [] t.k = "bytes" -> deserialize_bytes(input)
      [] t.k = "byte_buf" -> deserialize_byte_buf(input)
      [] t.k = "option" -> deserialize_option(input, t)
      [] t.k = "unit" -> deserialize_unit(input)
      [] t.k = "unit_struct" -> deserialize_unit_struct(input, t.v)
      [] t.k = "newtype_struct" -> deserialize_newtype_struct(input, t)
      [] t.k = "seq" -> deserialize_seq(input, t)
      [] t.k = "tuple" -> deserialize_tuple(input, t)
      [] t.k = "tuple_struct" -> deserialize_tuple_struct(input, t)
      [] t.k = "map" -> deserialize_map(input, t)
      [] t.k = "struct" -> deserialize_struct(input, t)
      [] t.k = "enum" -> deserialize_enum(input, t)
      [] t.k \in {"field_ident", "variant_ident"} -> deserialize_identifier(input, t)
      [] t.k \in {"json", "recorder"} -> deserialize_any(input, t)
      [] t.k = "ignored" -> deserialize_ignored_any(input, t)

from_py(t, input) == Deserialize(t, input)

(***************************************************************************)
(* The inputs the model draws from.                                        *)
(***************************************************************************)
MaxLen == 2

SeqsOf(S) == UNION {[1..n -> S] : n \in 0..MaxLen}

(* Names and texts, as code points. *)
sUnit == <<85, 110, 105, 116>>

sNewtype == <<78, 101, 119, 116, 121, 112, 101>>

sTuple == <<84, 117, 112, 108, 101>>

sStruct == <<83, 116, 114, 117, 99, 116>>

sA == <<97>>

sB == <<98>>

sInt == <<105, 110, 116>>

sSeq == <<115, 101, 113>>

sEAcute == <<233>>

(* The integers at the edges of every width, and beyond the doubles. *)
IntSamples ==
    {Small(n) : n \in {-32769, -32768, -129, -128, -1, 0, 1, 2, 127, 128, 255, 256,
                       32767, 32768, 65535, 65536}}
    \cup {NumAdd(Pow2(e), d) : e \in {31, 32, 63, 64}, d \in {-1, 0, 1}}
    \cup {NumAdd(NumNeg(Pow2(e)), d) : e \in {31, 63}, d \in {-1, 0, 1}}
    \cup {Pow2(1024)}

FloatSamples ==
    {Flt(Small(n), h) : n \in {-1, 0, 1, 2}, h \in {0, 1}}
    \cup {Flt(Pow2(31), 0), Flt(NumAdd(Pow2(31), 1), 0), Flt(Pow2(64), 0), Flt(Pow2(128), 0),
          PosInf}

StrSamples == {<<>>, sA, sB, sA \o sB, sEAcute, sUnit, sNewtype, sTuple, sStruct, sInt, sSeq}

ByteSamples == {<<>>, <<97, 98, 99>>, <<0, 255>>}

(* The values a schema's members take inside a compound value. *)
InnerInts == {Small(n) : n \in {-1, 0, 1, 2, 256}} \cup {NumAdd(Pow2(64), -1)}

InnerFloats == {Flt(Small(2), 0), Flt(Small(2), 1)}

InnerStrs == {sA, sB}

RECURSIVE ValuesOf(_, _)
FieldValues(fields, i) == {<<fields[i][1], x>> : x \in ValuesOf(fields[i][2], TRUE)}

Products(n, S(_)) == {xs \in [1..n -> UNION {S(i) : i \in 1..n}] : \A i \in 1..n : xs[i] \in S(i)}

(* The typed values of schema t: every sample at the top, the inner        *)
(* samples inside a compound value. *)
ValuesOf(t, inner) ==
    CASE t.k = "bool" -> {VBool(b) : b \in BOOLEAN}
      [] t.k \in IntWidths ->
            {VInt(t.k, n) : n \in {m \in (IF inner THEN InnerInts ELSE IntSamples) : Fits(t.k, m)}}
      [] t.k = "f64" -> {VF64(f) : f \in (IF inner THEN InnerFloats ELSE FloatSamples)}
      [] t.k = "f32" ->
            {VF32(f) : f \in {g \in (IF inner THEN InnerFloats ELSE FloatSamples) : F64ToF32(g) = g}}
      [] t.k = "char" -> {VChar(c) : c \in {97, 233}}
      [] t.k \in {"string", "str"} -> {VString(x) : x \in (IF inner THEN InnerStrs ELSE StrSamples)}
      [] t.k = "bytes" -> {VBytes(x) : x \in ByteSamples}
      [] t.k = "byte_buf" -> {VByteBuf(x) : x \in ByteSamples}
      [] t.k = "unit" -> {VUnit}
      [] t.k = "unit_struct" -> {VUnitStruct(t.v)}
      [] t.k = "option" -> {VNone} \cup {VSome(x) : x \in ValuesOf(t.v[1], inner)}
      [] t.k = "newtype_struct" -> {VNewtypeStruct(t.v[1], x) : x \in ValuesOf(t.v[2], inner)}
      [] t.k = "seq" -> {VSeq(xs) : xs \in SeqsOf(ValuesOf(t.v[1], TRUE))}
      [] t.k = "tuple" ->
            LET S(i) == ValuesOf(t.v[i], TRUE) IN {VTuple(xs) : xs \in Products(Len(t.v), S)}
      [] t.k = "tuple_struct" ->
            LET S(i) == ValuesOf(t.v[2][i], TRUE)
            IN  {VTupleStruct(t.v[1], xs) : xs \in Products(Len(t.v[2]), S)}
      [] t.k = "map" ->
            LET es == ValuesOf(t.v[1], TRUE) \X ValuesOf(t.v[2], TRUE)
            IN  {VMap(m) : m \in {n \in SUBSET es : /\ Cardinality(n) <= MaxLen
                                                    /\ \A a, b \in n : a[1] = b[1] => a = b}}
      [] t.k = "struct" ->
            LET S(i) == FieldValues(t.v[2], i)
            IN  {VStruct(t.v[1], fs) : fs \in Products(Len(t.v[2]), S)}
      [] t.k = "enum" ->
            UNION {LET variant == t.v[2][i]
                   IN  CASE variant[2] = "unit" -> {VUnitVariant(variant[1])}
                         [] variant[2] = "newtype" ->
                               {VNewtypeVariant(variant[1], x) : x \in ValuesOf(variant[3][1], TRUE)}
                         [] variant[2] = "tuple" ->
                               LET S(j) == ValuesOf(variant[3][j], TRUE)
                               IN  {VTupleVariant(variant[1], xs) : xs \in Products(Len(variant[3]), S)}
                         [] variant[2] = "struct" ->
                               LET S(j) == FieldValues(variant[3], j)
                               IN  {VStructVariant(variant[1], fs) : fs \in Products(Len(variant[3]), S)}
                   : i \in 1..Len(t.v[2])}
      [] t.k = "json" ->
            LET atoms == {VUnit, VBool(TRUE), VBool(FALSE), VInt("u64", Small(1)),
                          VInt("i64", Small(-1)), VF64(Flt(Small(2), 0)), VString(sB)}
                arrays == {VSeq(xs) : xs \in SeqsOf({VUnit, VBool(TRUE), VInt("u64", Small(1)),
                                                     VF64(Flt(Small(2), 0)), VSeq(<<>>), VMap({})})}
            IN  atoms \cup arrays
                \cup {VMap({<<VString(sA), x>>}) : x \in atoms \cup arrays}
                \cup {VMap({<<VString(sA), x>>, <<VString(sB), VString(sA)>>}) : x \in arrays}

(* The schemas of the repository's tests (Test, E, the string-keyed map,    *)
(* the byte sequences, serde_json::Value) and one of each other kind.      *)
TTest == TStruct("Test", <<<<sInt, TPrim("u32")>>, <<sSeq, TSeq(TPrim("string"))>>>>)

TE ==
    TEnum("E", <<<<sUnit, "unit", <<>>>>,
                 <<sNewtype, "newtype", <<TPrim("u32")>>>>,
                 <<sTuple, "tuple", <<TPrim("u32"), TPrim("u32")>>>>,
                 <<sStruct, "struct", <<<<sA, TPrim("u32")>>>>>>>>)

TF ==
    TEnum("F", <<<<sA, "unit", <<>>>>,
                 <<sB, "newtype", <<TSeq(TPrim("u8"))>>>>,
                 <<sInt, "tuple", <<TPrim("u8"), TPrim("string")>>>>,
                 <<sSeq, "struct", <<<<sA, TPrim("bool")>>, <<sB, TOption(TPrim("u8"))>>>>>>>>)

TOpt == TStruct("Opt", <<<<sA, TPrim("u8")>>, <<sB, TOption(TPrim("bool"))>>>>)

Schemas ==
    {TPrim(n) : n \in IntWidths \cup {"bool", "f32", "f64", "char", "string", "str", "bytes",
                                       "byte_buf", "unit"}}
    \cup {TUnitStruct("Marker"), TNewtypeStruct("Wrapper", TPrim("u32")),
          TOption(TPrim("u32")), TOption(TPrim("char")), TOption(TPrim("unit")), TOption(TOption(TPrim("u8"))),
          TSeq(TPrim("u8")), TSeq(TPrim("string")), TTuple(<<TPrim("u8"), TPrim("string")>>),
          TTupleStruct("Pair", <<TPrim("i8"), TPrim("i8")>>),
          TMap(TPrim("string"), TPrim("u32")), TMap(TPrim("u8"), TPrim("bool")),
          TTest, TOpt, TE, TF, TJson, TIgnored, TRecorder}

TypedInputs == UNION {{<<t, x>> : x \in ValuesOf(t, FALSE)} : t \in Schemas \ {TIgnored, TRecorder}}

PyScalars ==
    {PyNone, PyBool(TRUE), PyBool(FALSE)}
    \cup {PyInt(n) : n \in IntSamples}
    \cup {PyFloat(f) : f \in FloatSamples}
    \cup {PyStr(x) : x \in StrSamples}
    \cup {PyBytes(x) : x \in ByteSamples}
    \cup {PyArray(<<1, 2>>), PySet(<<>>), PyIndexable(<<PyInt(Small(1)), PyInt(Small(2))>>)}

PyInner ==
    {PyNone, PyBool(TRUE), PyInt(Small(-1)), PyInt(Small(1)), PyInt(Small(2)), PyInt(Small(256)),
     PyFloat(Flt(Small(2), 0)), PyStr(sA), PyStr(sB), PySet(<<>>)}

PySeqs == {PyList(xs) : xs \in SeqsOf(PyInner)} \cup {PyTuple(xs) : xs \in SeqsOf(PyInner)}

PyKeys ==
    {PyStr(x) : x \in {sUnit, sNewtype, sTuple, sStruct, sA, sB, sInt, sSeq}}
    \cup {PyInt(Small(1)), PyNone}

PyPayloads ==
    {PyNone, PyInt(Small(1)), PyInt(Small(256)), PyStr(sA), PySet(<<>>),
     PyList(<<>>), PyList(<<PyInt(Small(1)), PyInt(Small(2))>>),
     PyTuple(<<PyInt(Small(1)), PyInt(Small(2))>>), PyList(<<PyInt(Small(1))>>),
     PyList(<<PyStr(sA), PyStr(sB)>>), PyList(<<PyStr(sA), PyInt(Small(1))>>),
     PyDict(<<<<PyStr(sA), PyInt(Small(1))>>>>), PyDict(<<<<PyStr(sA), PyStr(sA)>>>>),
     PyDict(<<<<PyStr(sB), PyInt(Small(1))>>>>), PyDict(<<>>)}

PyKeys2 == {PyStr(x) : x \in {sUnit, sNewtype, sTuple, sA, sInt, sSeq}}

PyPayloads2 ==
    {PyNone, PyInt(Small(1)), PyList(<<PyInt(Small(1)), PyInt(Small(2))>>),
     PyList(<<PyStr(sA), PyStr(sB)>>)}

PyDicts ==
    {PyDict(<<>>)}
    \cup {PyDict(<<<<key, val>>>>) : key \in PyKeys, val \in PyPayloads}
    \cup {PyDict(<<<<ks[1], v1>>, <<ks[2], v2>>>>) :
            ks \in {kk \in PyKeys2 \X PyKeys2 : kk[1] # kk[2]},
            v1 \in PyPayloads2, v2 \in PyPayloads2}

PyInputs == PyScalars \cup PySeqs \cup PyDicts

(***************************************************************************)
(* The state machine: one call of to_py or from_py at a time.  schema and  *)
(* value are the call's type parameter and argument, obj the Python value  *)
(* produced or consumed, result what the call returned.  An accessor       *)
(* (SeqIter, DictIter) or a builder (PyDictSerializer) can also be driven  *)
(* call by call, as a visitor or a Serialize impl drives it: access is     *)
(* the accessor or builder, opened the Python value it was opened on,      *)
(* pulled the calls made on it so far, each with what it returned.         *)
(***************************************************************************)
NoValue == [k |-> "no_value", v |-> <<>>]

NoSchema == TPrim("no_schema")

NoResult == [k |-> "none", v |-> <<>>]

NoAccess == [k |-> "no_access"]

Init ==
    /\ pc = "idle"
    /\ schema = NoSchema
    /\ value = NoValue
    /\ obj = PyNone
    /\ result = NoResult
    /\ access = NoAccess
    /\ opened = PyNone
    /\ pulled = <<>>

(* to_py(py, &x) for a value x of type t. *)
CallToPy ==
    /\ pc = "idle"
    /\ \E in \in TypedInputs :
          /\ schema' = in[1]
          /\ value' = in[2]
          /\ result' = to_py(in[2])
          /\ obj' = IF IsOk(result') THEN result'.v ELSE PyNone
    /\ pc' = "to_py"
    /\ UNCHANGED <<access, opened, pulled>>

(* from_py::<t>(py, input). *)
CallFromPy ==
    /\ pc = "idle"
    /\ \E t \in Schemas, input \in PyInputs :
          /\ schema' = t
          /\ obj' = input
          /\ result' = from_py(t, input)
    /\ value' = NoValue
    /\ pc' = "from_py"
    /\ UNCHANGED <<access, opened, pulled>>

(* from_py::<t> on the object the preceding to_py returned. *)
CallFromPyOnResult ==
    /\ pc = "to_py"
    /\ IsOk(result)
    /\ result' = from_py(schema, obj)
    /\ pc' = "round_trip"
    /\ UNCHANGED <<schema, value, obj, access, opened, pulled>>

(* The mappings a DictIter is driven over, and the seeds it is given. *)
IterKeys == {PyStr(sA), PyStr(sB), PyInt(Small(1))}

IterVals == {PyInt(Small(1)), PyInt(Small(2))}

IterDicts ==
    {PyDict(d) : d \in {e \in SeqsOf(IterKeys \X IterVals) :
                           \A i, j \in 1..Len(e) : e[i][1] = e[j][1] => i = j}}

IterSeeds == {TMap(TPrim("string"), TPrim("u32")), TMap(TRecorder, TRecorder)}

(* A call made on the accessor or builder: what it returned, and the      *)
(* Python value it read or the typed value it was given. *)
Called(call, res, on) == [call |-> call, res |-> res, on |-> on]

LastCall == IF pulled = <<>> THEN "none" ELSE pulled[Len(pulled)].call

(* deserialize_map: DictIter::new on a dict, handed to visitor.visit_map. *)
OpenDictIter ==
    /\ pc = "idle"
    /\ \E d \in IterDicts, seeds \in IterSeeds :
          /\ obj' = d
          /\ opened' = d
          /\ schema' = seeds
          /\ access' = DictIter_new(d.v)
    /\ pulled' = <<>>
    /\ pc' = "dict_iter"
    /\ UNCHANGED <<value, result>>

(* The visitor's next_key / next_key_seed, first and after each value. *)
CallNextKeySeed ==
    /\ pc = "dict_iter"
    /\ \/ pulled = <<>>
       \/ LastCall = "next_value_seed" /\ IsOk(result)
    /\ \E n \in {next_key_seed(access, schema.v[1])} :
          /\ result' = n.res
          /\ access' = n.it
          /\ pulled' = Append(pulled, Called("next_key_seed", n.res, obj))
    /\ UNCHANGED <<pc, schema, value, obj, opened>>

(* The visitor's next_value / next_value_seed, after a key. *)
CallNextValueSeed ==
    /\ pc = "dict_iter"
    /\ LastCall = "next_key_seed" /\ IsOk(result) /\ result.v # None
    /\ \E n \in {next_value_seed(access, schema.v[2])} :
          /\ result' = n.res
          /\ access' = n.it
          /\ pulled' = Append(pulled, Called("next_value_seed", n.res, obj))
    /\ UNCHANGED <<pc, schema, value, obj, opened>>

(* Python code run while the DictIter is open (a key's __hash__ or __eq__, *)
(* reached from get_item) deletes an entry of the dict; self.input is the  *)
(* same dict, self.keys a list of its own. *)
DelItem ==
    /\ pc = "dict_iter"
    /\ obj = opened
    /\ \E i \in 1..Len(obj.v) :
          LET d == SubSeq(obj.v, 1, i - 1) \o SubSeq(obj.v, i + 1, Len(obj.v))
          IN  /\ obj' = PyDict(d)
              /\ access' = [access EXCEPT !.input = d]
    /\ UNCHANGED <<pc, schema, value, result, opened, pulled>>

(* The sequences a SeqIter is driven over, and the seeds it is given. *)
IterItems == {PyInt(Small(1)), PyInt(Small(2)), PyStr(sA)}

IterSeqs ==
    {PyList(xs) : xs \in SeqsOf(IterItems)} \cup {PyTuple(xs) : xs \in SeqsOf(IterItems)}
    \cup {PyStr(sA \o sB), PyIndexable(<<PyInt(Small(1)), PyInt(Small(2))>>)}

ElementSeeds == {TSeq(TPrim("u8")), TSeq(TRecorder)}

(* The calls a visitor is let make after next_element_seed returned None. *)
MaxCallsPastEnd == 2

ElementCalls == SelectSeq(pulled, LAMBDA c : c.call = "next_element_seed")

(* deserialize_seq: SeqIter::new on the sequence's iterator and length,    *)
(* handed to visitor.visit_seq. *)
OpenSeqIter ==
    /\ pc = "idle"
    /\ \E p \in IterSeqs, seeds \in ElementSeeds :
          /\ obj' = p
          /\ opened' = p
          /\ schema' = seeds
          /\ access' = SeqIter_new(SeqItems(p), SeqLen(p))
    /\ pulled' = <<>>
    /\ pc' = "seq_iter"
    /\ UNCHANGED <<value, result>>

(* The visitor's next_element / next_element_seed. *)
CallNextElementSeed ==
    /\ pc = "seq_iter"
    /\ Len(ElementCalls) < Len(SeqItems(opened)) + MaxCallsPastEnd
    /\ \E n \in {next_element_seed(access, schema.v[1])} :
          /\ result' = n.res
          /\ access' = n.it
          /\ pulled' = Append(pulled, Called("next_element_seed", n.res, obj))
    /\ UNCHANGED <<pc, schema, value, obj, opened>>

(* The visitor's size_hint, between two pulls. *)
CallSizeHint ==
    /\ pc = "seq_iter"
    /\ LastCall # "size_hint"
    /\ result' = Ok(size_hint(access))
    /\ pulled' = Append(pulled, Called("size_hint", result', obj))
    /\ UNCHANGED <<pc, schema, value, obj, opened, access>>

(* The maps a Serialize impl feeds the PyDictSerializer entry by entry, a  *)
(* key given more than once included. *)
BuilderTypes == {TMap(TPrim("string"), TPrim("u32")), TMap(TPrim("u8"), TPrim("bool"))}

MaxPairs == 3

KeysGiven == SelectSeq(pulled, LAMBDA c : c.call = "serialize_key")

ValuesGiven == SelectSeq(pulled, LAMBDA c : c.call = "serialize_value")

(* Serializer::serialize_map. *)
OpenMapSerializer ==
    /\ pc = "idle"
    /\ \E t \in BuilderTypes : schema' = t
    /\ access' = PyDictSerializer_new
    /\ pulled' = <<>>
    /\ pc' = "map_builder"
    /\ UNCHANGED <<value, obj, result, opened>>

CallSerializeKey ==
    /\ pc = "map_builder"
    /\ pulled = <<>> \/ (LastCall = "serialize_value" /\ IsOk(result))
    /\ Len(KeysGiven) < MaxPairs
    /\ \E key \in ValuesOf(schema.v[1], TRUE) :
          \E r \in {serialize_key(access, key)} :
              /\ result' = IF IsOk(r) THEN Ok(<<>>) ELSE r
              /\ access' = IF IsOk(r) THEN r.v ELSE access
              /\ pulled' = Append(pulled, Called("serialize_key",
                                                 IF IsOk(r) THEN Ok(<<>>) ELSE r, key))
    /\ UNCHANGED <<pc, schema, value, obj, opened>>

CallSerializeValue ==
    /\ pc = "map_builder"
    /\ LastCall = "serialize_key" /\ IsOk(result)
    /\ \E val \in ValuesOf(schema.v[2], TRUE) :
          \E r \in {serialize_value(access, val)} :
              /\ result' = IF IsOk(r) THEN Ok(<<>>) ELSE r
              /\ access' = IF IsOk(r) THEN r.v ELSE access
              /\ pulled' = Append(pulled, Called("serialize_value",
                                                 IF IsOk(r) THEN Ok(<<>>) ELSE r, val))
    /\ UNCHANGED <<pc, schema, value, obj, opened>>

(* SerializeMap::end, after the last entry. *)
CallEnd ==
    /\ pc = "map_builder"
    /\ pulled = <<>> \/ (LastCall = "serialize_value" /\ IsOk(result))
    /\ result' = end(access)
    /\ obj' = end(access).v
    /\ pc' = "map_built"
    /\ UNCHANGED <<schema, value, access, opened, pulled>>

Next ==
    \/ CallToPy
    \/ CallFromPy
    \/ CallFromPyOnResult
    \/ OpenDictIter
    \/ CallNextKeySeed
    \/ CallNextValueSeed
    \/ DelItem
    \/ OpenSeqIter
    \/ CallNextElementSeed
    \/ CallSizeHint
    \/ OpenMapSerializer
    \/ CallSerializeKey
    \/ CallSerializeValue
    \/ CallEnd

Spec == Init /\ [][Next]_vars

(***************************************************************************)
(* Properties.                                                             *)
(***************************************************************************)
IsErr(r) == r.k = "err"

Shape(t, name) == t.v[2][IndexOf(Names(t.v[2]), name)][2]

(* The schemas whose values are the kinds the round-trip property lists:   *)
(* structs, maps, sequences, tuples, options of a value that is not itself *)
(* null, unit, the enums, and serde_json::Value. *)
RoundTripSchemas ==
    {t \in Schemas : t.k \in {"struct", "map", "seq", "tuple", "tuple_struct", "unit",
                              "unit_struct", "newtype_struct", "enum", "json"}}
    \cup {TOption(TPrim("u32"))}

(* C1: for every typed value v of the kinds listed (structs, maps,         *)
(* sequences, tuples, options, unit, the four enum-variant shapes, and     *)
(* schema-less JSON values read back through deserialize_any),             *)
(* from_py(to_py(v)) succeeds and equals v. *)
C1_RoundTrip ==
    (pc = "round_trip" /\ schema \in RoundTripSchemas) => result = Ok(value)

(* C2: to_py of a unit variant n is the bare string n; of a newtype        *)
(* variant the one-entry mapping {n: to_py(payload)}; of a tuple variant   *)
(* the one-entry mapping {n: the sequence of the serialized fields in      *)
(* declaration order}; of a struct variant the one-entry mapping {n: the   *)
(* mapping of each field name to its serialized value}. *)
C2_EnumWire ==
    pc = "to_py" =>
        CASE value.k = "unit_variant" -> result = Ok(PyStr(value.v))
          [] value.k = "newtype_variant" ->
                /\ IsOk(result) /\ IsOk(to_py(value.v[2]))
                /\ result.v.k = "dict"
                /\ result.v.v = <<<<PyStr(value.v[1]), to_py(value.v[2]).v>>>>
          [] value.k = "tuple_variant" ->
                /\ IsOk(result)
                /\ result.v.k = "dict"
                /\ Len(result.v.v) = 1
                /\ result.v.v[1][1] = PyStr(value.v[1])
                /\ result.v.v[1][2].k \in {"list", "tuple"}
                /\ result.v.v[1][2].v = [i \in 1..Len(value.v[2]) |-> to_py(value.v[2][i]).v]
          [] value.k = "struct_variant" ->
                /\ IsOk(result)
                /\ result.v.k = "dict"
                /\ Len(result.v.v) = 1
                /\ result.v.v[1][1] = PyStr(value.v[1])
                /\ result.v.v[1][2].k = "dict"
                /\ result.v.v[1][2].v =
                      [i \in 1..Len(value.v[2]) |->
                          <<PyStr(value.v[2][i][1]), to_py(value.v[2][i][2]).v>>]
          [] OTHER -> TRUE

C2_Witness ==
    /\ pc = "to_py"
    /\ value = VStructVariant(sStruct, <<<<sA, VInt("u32", Small(1))>>>>)
    /\ result = Ok(PyDict(<<<<PyStr(sStruct), PyDict(<<<<PyStr(sA), PyInt(Small(1))>>>>)>>>>))

(* C3: against an enum, a bare string s yields the unit variant named s,   *)
(* and a one-entry mapping {n: p} yields variant n with p decoded by the   *)
(* declared shape: newtype through the typed deserialize of p, tuple only  *)
(* from a sequence-like p read through SeqIter, struct only from a         *)
(* mapping-like p read through DictIter; "Unit", {"Newtype": 1},           *)
(* {"Tuple": [1, 2]}, {"Struct": {"a": 1}} and every serialized variant    *)
(* read back as the variant that serializes to them. *)
C3_EnumDeserialize ==
    /\ (pc = "from_py" /\ schema.k = "enum" /\ obj.k = "str") =>
          IF IndexOf(Names(schema.v[2]), obj.v) # 0 /\ Shape(schema, obj.v) = "unit"
          THEN result = Ok(VUnitVariant(obj.v))
          ELSE IsErr(result)
    /\ (/\ pc = "from_py" /\ schema.k = "enum" /\ obj.k = "dict" /\ Len(obj.v) = 1
        /\ obj.v[1][1].k = "str" /\ IndexOf(Names(schema.v[2]), obj.v[1][1].v) # 0) =>
          LET n == obj.v[1][1].v
              p == obj.v[1][2]
              payload == schema.v[2][IndexOf(Names(schema.v[2]), n)][3]
          IN  CASE Shape(schema, n) = "newtype" ->
                      result = IF IsOk(from_py(payload[1], p))
                               THEN Ok(VNewtypeVariant(n, from_py(payload[1], p).v))
                               ELSE from_py(payload[1], p)
                [] Shape(schema, n) = "tuple" ->
                      IF IsSequence(p)
                      THEN result = visit_seq(TTupleVariant(n, payload),
                                              SeqIter_new(SeqItems(p), Some(Len(SeqItems(p)))))
                      ELSE IsErr(result)
                [] Shape(schema, n) = "struct" ->
                      IF p.k = "dict"
                      THEN result = visit_map(TStructVariant(n, payload), DictIter_new(p.v))
                      ELSE IsErr(result)
                [] OTHER -> TRUE
    /\ (pc = "from_py" /\ schema = TE) =>
          /\ obj = PyStr(sUnit) => result = Ok(VUnitVariant(sUnit))
          /\ obj = PyDict(<<<<PyStr(sNewtype), PyInt(Small(1))>>>>)
                => result = Ok(VNewtypeVariant(sNewtype, VInt("u32", Small(1))))
          /\ obj = PyDict(<<<<PyStr(sTuple), PyList(<<PyInt(Small(1)), PyInt(Small(2))>>)>>>>)
                => result = Ok(VTupleVariant(sTuple, <<VInt("u32", Small(1)), VInt("u32", Small(2))>>))
          /\ obj = PyDict(<<<<PyStr(sStruct), PyDict(<<<<PyStr(sA), PyInt(Small(1))>>>>)>>>>)
                => result = Ok(VStructVariant(sStruct, <<<<sA, VInt("u32", Small(1))>>>>))
    /\ (pc = "round_trip" /\ schema.k = "enum") => result = Ok(value)

C3_Witness ==
    /\ pc = "from_py"
    /\ schema = TE
    /\ obj = PyDict(<<<<PyStr(sTuple), PyList(<<PyInt(Small(1)), PyInt(Small(2))>>)>>>>)
    /\ result = Ok(VTupleVariant(sTuple, <<VInt("u32", Small(1)), VInt("u32", Small(2))>>))

(* C4: given a value that is not a string, deserialize_enum succeeds only  *)
(* on a mapping with exactly one entry. *)
C4_ExactlyOneEntry ==
    (pc = "from_py" /\ schema.k = "enum" /\ obj.k # "str" /\ IsOk(result))
        => (obj.k = "dict" /\ Len(obj.v) = 1)

(* The probes of deserialize_any, in the order the specification gives. *)
ProbeOrder == <<"none", "string", "bool", "u64", "f64", "seq", "map">>

ProbeSucceeds(probe, p) ==
    CASE probe = "none" -> p.k = "None"
      [] probe = "string" -> IsOk(Extract("String", p))
      [] probe = "bool" -> IsOk(Extract("bool", p))
      [] probe = "u64" -> IsOk(Extract("u64", p))
      [] probe = "f64" -> IsOk(Extract("f64", p))
      [] probe = "seq" -> p.k \in {"list", "tuple"}
      [] probe = "map" -> p.k = "dict"

Delivered(probe, p) ==
    CASE probe = "none" -> [k |-> "visit_unit", v |-> <<>>]
      [] probe = "string" -> [k |-> "visit_string", v |-> Extract("String", p).v]
      [] probe = "bool" -> [k |-> "visit_bool", v |-> Extract("bool", p).v]
      [] probe = "u64" -> [k |-> "visit_u64", v |-> Extract("u64", p).v]
      [] probe = "f64" -> [k |-> "visit_f64", v |-> Extract("f64", p).v]

(* C5: deserialize_any delivers to the visitor the kind of the first probe *)
(* that succeeds in the order null, string, boolean, unsigned integer,     *)
(* float, list or tuple, mapping; a boolean is never delivered as an       *)
(* integer, a value coercible to u64 never as a float, and a value no      *)
(* probe matches fails with Syntax. *)
C5_AnyDispatch ==
    (pc = "from_py" /\ schema = TRecorder) =>
        LET hits == {i \in 1..Len(ProbeOrder) : ProbeSucceeds(ProbeOrder[i], obj)}
            first == ProbeOrder[CHOOSE i \in hits : \A j \in hits : i <= j]
        IN  /\ hits = {} => result = Err("Syntax")
            /\ (hits # {} /\ first \notin {"seq", "map"}) => result = Ok(Delivered(first, obj))
            /\ (hits # {} /\ first = "seq" /\ IsOk(result)) => result.v.k = "visit_seq"
            /\ (hits # {} /\ first = "map" /\ IsOk(result)) => result.v.k = "visit_map"
            /\ obj.k = "bool" => result = Ok([k |-> "visit_bool", v |-> obj.v])
            /\ (obj.k = "int" /\ Fits("u64", obj.v)) => result = Ok([k |-> "visit_u64", v |-> obj.v])

C5_Witness ==
    /\ pc = "from_py"
    /\ schema = TRecorder
    /\ obj = PyBool(TRUE)
    /\ result = Ok([k |-> "visit_bool", v |-> TRUE])

(* The error the specification names for a mismatch against each kind. *)
ExpectedError(kind) ==
    CASE kind = "bool" -> "ExpectedBoolean"
      [] kind \in IntWidths -> "ExpectedInteger"
      [] kind \in {"f32", "f64"} -> "ExpectedFloat"
      [] kind \in {"string", "str"} -> "ExpectedString"
      [] kind \in {"seq", "tuple", "tuple_struct"} -> "ExpectedList"
      [] kind \in {"map", "struct"} -> "ExpectedDict"
      [] kind \in {"unit", "unit_struct"} -> "ExpectedNone"

(* A value of the wrong dynamic kind for a typed target. *)
Mismatch(kind, p) ==
    CASE kind = "bool" -> p.k # "bool"
      [] kind \in IntWidths -> p.k \notin {"int", "bool"}
      [] kind \in {"f32", "f64"} -> p.k \notin {"float", "int", "bool"}
      [] kind \in {"string", "str"} -> p.k # "str"
      [] kind \in {"seq", "tuple", "tuple_struct"} -> ~IsSequence(p)
      [] kind \in {"map", "struct"} -> p.k # "dict"
      [] kind \in {"unit", "unit_struct"} -> p.k # "None"
      [] OTHER -> FALSE

(* C6: a typed target given a value of the wrong dynamic kind fails with   *)
(* the error of the target's kind: expected-boolean, expected-integer,     *)
(* expected-float, expected-string, expected-list, expected-dict,          *)
(* expected-none. *)
C6_MismatchError ==
    (pc = "from_py" /\ Mismatch(schema.k, obj)) => result = Err(ExpectedError(schema.k))

NumericTargets == IntWidths \cup {"f32", "f64"}

(* The number a Python int or float denotes, as a float. *)
AsFloat(p) == IF p.k = "int" THEN Flt(p.v, 0) ELSE p.v

(* The dynamic number fits the requested width. *)
FitsTarget(w, p) ==
    CASE w \in IntWidths -> p.k = "int" /\ Fits(w, p.v)
      [] w = "f32" -> AsFloat(p)[2] < 128 \/ (p.k = "float" /\ ~IsFinite(p.v))
      [] w = "f64" -> AsFloat(p)[2] < 1024 \/ (p.k = "float" /\ ~IsFinite(p.v))

(* The number, to the precision of the requested width. *)
ToWidth(w, p) ==
    CASE w \in IntWidths -> p.v
      [] w = "f32" -> IF AsFloat(p)[4] = 1 \/ ~IsFinite(AsFloat(p)) THEN AsFloat(p)
                      ELSE Flt(RoundBits(IntPart(AsFloat(p)), 24), 0)
      [] w = "f64" -> IF AsFloat(p)[4] = 1 \/ ~IsFinite(AsFloat(p)) THEN AsFloat(p)
                      ELSE Flt(RoundBits(IntPart(AsFloat(p)), 53), 0)

(* C7: a typed numeric target given a dynamic number succeeds exactly when *)
(* the number fits the requested width, then with the same number (to the  *)
(* precision of the width); a number outside the width fails with the      *)
(* error of the target's kind and is never wrapped, truncated or           *)
(* saturated. *)
C7_Narrowing ==
    (pc = "from_py" /\ schema.k \in NumericTargets /\ obj.k \in {"int", "float"}) =>
        /\ IsOk(result) => (FitsTarget(schema.k, obj) /\ result.v.v = ToWidth(schema.k, obj))
        /\ ~FitsTarget(schema.k, obj) => result = Err(ExpectedError(schema.k))
        /\ (FitsTarget(schema.k, obj) /\ (schema.k \in {"f32", "f64"} \/ obj.k = "int"))
              => IsOk(result)

(* from_py against Option<T>: None for null, else T's result wrapped. *)
OptionOf(t, p) ==
    IF p = PyNone THEN Ok(VNone)
    ELSE IF IsOk(from_py(t, p)) THEN Ok(VSome(from_py(t, p).v)) ELSE from_py(t, p)

(* C8 as stated: to_py(None) is null and null reads back as None;          *)
(* to_py(Some(x)) equals to_py(x), and reads back as Some(x) for every x   *)
(* of the inner type, those whose own serialization is null included. *)
C8_OptionAsStated ==
    /\ (pc = "to_py" /\ value = VNone) => result = Ok(PyNone)
    /\ (pc = "to_py" /\ value.k = "some") => result = to_py(value.v[1])
    /\ (pc = "from_py" /\ schema.k = "option" /\ obj = PyNone) => result = Ok(VNone)
    /\ (pc = "round_trip" /\ schema.k = "option" /\ value.k = "some"
        /\ from_py(schema.v[1], obj) = Ok(value.v[1])) => result = Ok(value)

(* C8: to_py(None) is null and null reads back as None; to_py(Some(x))     *)
(* equals to_py(x); a value that is not null reads as Some(y) exactly when *)
(* the inner type reads it as y, and fails as the inner type fails; so     *)
(* to_py(Some(x)) reads back as Some(x) when it is not null and x reads    *)
(* back as itself, and as None when it is null. *)
C8_Option ==
    /\ (pc = "to_py" /\ value = VNone) => result = Ok(PyNone)
    /\ (pc = "to_py" /\ value.k = "some") => result = to_py(value.v[1])
    /\ (pc \in {"from_py", "round_trip"} /\ schema.k = "option")
          => result = OptionOf(schema.v[1], obj)
    /\ (pc = "round_trip" /\ schema.k = "option" /\ value.k = "some") =>
          IF obj = PyNone THEN result = Ok(VNone)
          ELSE from_py(schema.v[1], obj) = Ok(value.v[1]) => result = Ok(value)

C8_Witness ==
    /\ pc = "round_trip"
    /\ schema = TOption(TPrim("u32"))
    /\ value = VSome(VInt("u32", Small(1)))
    /\ obj = PyInt(Small(1))
    /\ result = Ok(value)

(* C9: deserialize_bytes and deserialize_byte_buf take the octets of a     *)
(* value exposing a contiguous byte buffer, else those of a sequence of    *)
(* small integers, and fail with expected-bytes on a value that is         *)
(* neither. *)
C9_Bytes ==
    (pc = "from_py" /\ schema.k \in {"bytes", "byte_buf"}) =>
        /\ obj.k = "bytes" => (IsOk(result) /\ result.v.v = obj.v)
        /\ (obj.k \in {"list", "tuple"} /\ \A i \in 1..Len(obj.v) :
                obj.v[i].k = "int" /\ Fits("u8", obj.v[i].v))
              => (IsOk(result) /\ Len(result.v.v) = Len(obj.v)
                  /\ \A i \in 1..Len(obj.v) : Small(result.v.v[i]) = obj.v[i].v)
        /\ (obj.k \notin {"bytes", "array"} /\ ~IsSequence(obj))
              => result = Err("ExpectedBytes")

(* C10: no deserialization of an enum reaches the access's unit-variant    *)
(* method; a unit variant written as {"Unit": null} is an ordinary result  *)
(* or an ordinary error. *)
C10_UnitVariantUnreached ==
    (pc = "from_py" /\ schema.k = "enum") => result # unit_variant

(* The orders in which n entries can be inserted. *)
Perms(n) == {f \in [1..n -> 1..n] : \A i, j \in 1..n : f[i] = f[j] => i = j}

Reorder(d, f) == [i \in 1..Len(d) |-> d[f[i]]]

(* C11: a struct or a map read from a mapping does not depend on the order *)
(* the mapping's entries were inserted in: every reordering of the entries *)
(* succeeds when the mapping does and then yields the equal value;         *)
(* {"seq": ["a","b"], "int": 1} and {"int": 1, "seq": ["a","b"]} both give *)
(* Test {int: 1, seq: ["a","b"]}; a string-keyed map holds exactly the     *)
(* mapping's entries. *)
C11_KeyOrderIndependent ==
    /\ (pc = "from_py" /\ schema.k \in {"struct", "map"} /\ obj.k = "dict") =>
          \A f \in Perms(Len(obj.v)) :
              LET other == from_py(schema, PyDict(Reorder(obj.v, f)))
              IN  /\ IsOk(result) <=> IsOk(other)
                  /\ IsOk(result) => other = result
    /\ (/\ pc = "from_py" /\ schema = TTest
        /\ \E f \in Perms(2) :
              obj = PyDict(Reorder(<<<<PyStr(sSeq), PyList(<<PyStr(sA), PyStr(sB)>>)>>,
                                     <<PyStr(sInt), PyInt(Small(1))>>>>, f)))
          => result = Ok(VStruct("Test", <<<<sInt, VInt("u32", Small(1))>>,
                                           <<sSeq, VSeq(<<VString(sA), VString(sB)>>)>>>>))
    /\ (pc = "from_py" /\ schema = TMap(TPrim("string"), TPrim("u32")) /\ IsOk(result)) =>
          /\ obj.k = "dict"
          /\ result.v.v = {<<VString(obj.v[i][1].v), VInt("u32", obj.v[i][2].v)>> :
                              i \in 1..Len(obj.v)}

C11_Witness ==
    /\ pc = "from_py"
    /\ schema = TTest
    /\ obj = PyDict(<<<<PyStr(sSeq), PyList(<<PyStr(sA), PyStr(sB)>>)>>,
                      <<PyStr(sInt), PyInt(Small(1))>>>>)
    /\ result = Ok(VStruct("Test", <<<<sInt, VInt("u32", Small(1))>>,
                                     <<sSeq, VSeq(<<VString(sA), VString(sB)>>)>>>>))

KeyCalls == SelectSeq(pulled, LAMBDA c : c.call = "next_key_seed")

ValueCalls == SelectSeq(pulled, LAMBDA c : c.call = "next_value_seed")

(* What a seed makes of a value that was found: Some(y) for a key. *)
Pulled(t, p) == IF IsOk(from_py(t, p)) THEN Ok(Some(from_py(t, p).v)) ELSE from_py(t, p)

(* C12: a DictIter keeps the key list of the mapping as it was when opened; *)
(* under alternating next_key_seed / next_value_seed the k-th key pulled   *)
(* is the k-th key of that list, the k-th value pulled is the mapping's    *)
(* value for that key, next_key_seed returns None after exactly as many    *)
(* pairs as the list has keys, and a value whose key is no longer in the   *)
(* mapping fails with the expected-dict-value error. *)
C12_DictIterProtocol ==
    pc = "dict_iter" =>
        /\ access.keys = DictKeys(opened.v)
        /\ \A k \in 1..Len(KeyCalls) :
              KeyCalls[k].res = IF k <= Len(opened.v)
                                THEN Pulled(schema.v[1], opened.v[k][1])
                                ELSE Ok(None)
        /\ \A k \in 1..Len(ValueCalls) :
              LET now == ValueCalls[k].on.v
                  key == opened.v[k][1]
              IN  ValueCalls[k].res = IF DictGetItem(now, key) # None
                                      THEN from_py(schema.v[2], DictGetItem(now, key)[1])
                                      ELSE Err("ExpectedDictValue")

(* C13: a SeqIter yields the elements of the sequence one at a time, in    *)
(* their order, each once: the k-th next_element_seed returns the k-th     *)
(* element, and every call after the last element returns None, however    *)
(* often it is repeated; size_hint is the length of the sequence when the  *)
(* sequence has one, else None. *)
C13_SeqIterProtocol ==
    pc = "seq_iter" =>
        /\ \A k \in 1..Len(ElementCalls) :
              ElementCalls[k].res = IF k <= Len(SeqItems(opened))
                                    THEN Pulled(schema.v[1], SeqItems(opened)[k])
                                    ELSE Ok(None)
        /\ \A k \in 1..Len(pulled) :
              pulled[k].call = "size_hint" =>
                  pulled[k].res = Ok(IF opened.k = "indexable" THEN None
                                     ELSE Some(Len(SeqItems(opened))))

C13_Witness ==
    /\ pc = "seq_iter"
    /\ opened = PyList(<<PyInt(Small(1)), PyInt(Small(2))>>)
    /\ schema = TSeq(TPrim("u8"))
    /\ Len(pulled) = 5
    /\ Len(ElementCalls) = 4
    /\ pulled[1].call = "size_hint" /\ pulled[1].res = Ok(Some(2))
    /\ [k \in 1..4 |-> ElementCalls[k].res]
          = <<Ok(Some(VInt("u8", Small(1)))), Ok(Some(VInt("u8", Small(2)))), Ok(None), Ok(None)>>

(* The Python key of the i-th serialize_key call. *)
KeyGiven(i) == to_py(KeysGiven[i].on).v

(* The calls that gave a key not given before, and the last call that gave *)
(* the key of call i. *)
FirstGiven == {i \in 1..Len(KeysGiven) : \A j \in 1..(i - 1) : KeyGiven(j) # KeyGiven(i)}

LastGiven(i) ==
    CHOOSE j \in 1..Len(KeysGiven) :
        /\ KeyGiven(j) = KeyGiven(i)
        /\ \A h \in (j + 1)..Len(KeysGiven) : KeyGiven(h) # KeyGiven(i)

(* C14: after alternating serialize_key / serialize_value calls and end(), *)
(* the mapping holds one entry per distinct key given, bound to the last   *)
(* value given for that key, the keys in the order they were first given;  *)
(* a struct is written as name -> serialize(value) for each field, in      *)
(* declaration order. *)
C14_MappingBuilder ==
    /\ pc = "map_built" =>
          /\ IsOk(result) /\ result.v.k = "dict"
          /\ Len(result.v.v) = Cardinality(FirstGiven)
          /\ \A i \in FirstGiven :
                result.v.v[Cardinality({j \in FirstGiven : j <= i})]
                   = <<KeyGiven(i), to_py(ValuesGiven[LastGiven(i)].on).v>>
    /\ (pc = "to_py" /\ value.k = "struct" /\ IsOk(result)) =>
          result = Ok(PyDict([i \in 1..Len(value.v[2]) |->
                                <<PyStr(value.v[2][i][1]), to_py(value.v[2][i][2]).v>>]))

C14_Witness ==
    /\ pc = "map_built"
    /\ Len(KeysGiven) = 3
    /\ [i \in 1..3 |-> KeysGiven[i].on] = <<VString(sA), VString(sB), VString(sA)>>
    /\ [i \in 1..3 |-> ValuesGiven[i].on]
          = <<VInt("u32", Small(0)), VInt("u32", Small(1)), VInt("u32", Small(2))>>
    /\ result = Ok(PyDict(<<<<PyStr(sA), PyInt(Small(2))>>, <<PyStr(sB), PyInt(Small(1))>>>>))

(* The members of the Python value p a traversal for the schema t reads,  *)
(* in the order it reads them, each with the schema it is read by. *)
Members(t, p) ==
    CASE t.k \in {"seq", "json", "recorder", "ignored"} /\ p.k \in {"list", "tuple"} ->
            [i \in 1..Len(p.v) |-> <<IF t.k = "seq" THEN t.v[1] ELSE t, p.v[i]>>]
      [] t.k \in {"tuple", "tuple_struct"} /\ p.k \in {"list", "tuple"} ->
            LET ts == IF t.k = "tuple" THEN t.v ELSE t.v[2]
            IN  [i \in 1..(IF Len(ts) < Len(p.v) THEN Len(ts) ELSE Len(p.v)) |-> <<ts[i], p.v[i]>>]
      [] t.k = "map" /\ p.k = "dict" ->
            [i \in 1..(2 * Len(p.v)) |->
                IF i % 2 = 1 THEN <<t.v[1], p.v[(i + 1) \div 2][1]>>
                ELSE <<t.v[2], p.v[i \div 2][2]>>]
      [] t.k = "struct" /\ p.k = "dict" ->
            [i \in 1..(2 * Len(p.v)) |->
                LET key == p.v[(i + 1) \div 2][1]
                    field == IF key.k = "str" THEN IndexOf(Names(t.v[2]), key.v) ELSE 0
                IN  IF i % 2 = 1 THEN <<TFieldIdent(Names(t.v[2])), key>>
                    ELSE <<IF field = 0 THEN TIgnored ELSE t.v[2][field][2], p.v[i \div 2][2]>>]
      [] t.k = "enum" /\ p.k = "dict" /\ Len(p.v) = 1 /\ p.v[1][1].k = "str"
         /\ IndexOf(Names(t.v[2]), p.v[1][1].v) # 0 /\ Shape(t, p.v[1][1].v) = "newtype" ->
            <<<<t.v[2][IndexOf(Names(t.v[2]), p.v[1][1].v)][3][1], p.v[1][2]>>>>
      [] t.k = "option" /\ p # PyNone -> <<<<t.v[1], p>>>>
      [] t.k = "newtype_struct" -> <<<<t.v[2], p>>>>
      [] OTHER -> <<>>

Failing(t, p) == {i \in 1..Len(Members(t, p)) : ~IsOk(from_py(Members(t, p)[i][1], Members(t, p)[i][2]))}

(* C15: when a member read in a from_py traversal fails (a sequence        *)
(* element, a mapping key or value, a struct field, an enum payload, the   *)
(* inside of an option or a newtype), the call returns the failure of the  *)
(* first member that fails in reading order, whatever follows it: nothing  *)
(* stands in for the member and no value is returned. *)
C15_FailFast ==
    (pc = "from_py" /\ Failing(schema, obj) # {}) =>
        LET first == CHOOSE i \in Failing(schema, obj) : \A j \in Failing(schema, obj) : i <= j
            member == Members(schema, obj)[first]
        IN  /\ ~IsOk(result)
            /\ result = from_py(member[1], member[2])

C15_Witness ==
    /\ pc = "from_py"
    /\ schema = TTest
    /\ obj = PyDict(<<<<PyStr(sSeq), PyInt(Small(1))>>, <<PyStr(sInt), PyNone>>>>)
    /\ from_py(TPrim("u32"), PyNone) = Err("ExpectedInteger")
    /\ result = Err("PyErr")

(* C16: deserialize_any delivers every Python int to the visitor as an     *)
(* integer of the same value, a negative one as well as a non-negative     *)
(* one, never as a float; so a JSON value holding a negative integer reads *)
(* back from to_py unchanged. *)
C16_IntegersStayIntegers ==
    /\ (pc = "from_py" /\ schema = TRecorder /\ obj.k = "int") =>
          /\ IsOk(result)
          /\ result.v.k \in {"visit_i64", "visit_u64"}
          /\ result.v.v = obj.v
    /\ (pc = "round_trip" /\ schema = TJson /\ value.k \in {"i64", "u64"}) => result = Ok(value)

(* C17: serialize_char(c) is the string of the one character c, and        *)
(* deserialize_char of it yields c, for an ASCII c and for any other;      *)
(* deserialize_char accepts a string exactly when it holds one character   *)
(* and fails on every other string. *)
C17_CharRoundTrip ==
    /\ (pc = "to_py" /\ value.k = "char") => result = Ok(PyStr(<<value.v>>))
    /\ (pc = "round_trip" /\ schema = TPrim("char")) => result = Ok(value)
    /\ (pc = "from_py" /\ schema = TPrim("char") /\ obj.k = "str") =>
          IF Len(obj.v) = 1 THEN result = Ok(VChar(obj.v[1])) ELSE IsErr(result)

====
